---- MODULE Spec2Model ----
(***************************************************************************)
(* The e-mail delivery pipeline of the worker: WorkflowWorker's job        *)
(* processor and SendMessageEmail.execute with its helpers, as a state     *)
(* machine.  One job (one trigger command, read against one set of         *)
(* read-only stores) is handed to the processor up to MaxDeliveries times  *)
(* (queue-level redelivery); the deliveries run interleaved and share the  *)
(* message store, the execution log and the mail provider.                 *)
(***************************************************************************)
EXTENDS Integers, Sequences, FiniteSets, TLC

\* Number of times the queue hands the job to the processor.
MaxDeliveries == 2

Deliveries == 1..MaxDeliveries

\* ---------------------------------------------------------------- values
Null == "null"              \* null / undefined
NoMessage == 0              \* an audit entry without messageId

Falsy(v) == v \in {Null, ""}
OrElse(a, b) == IF Falsy(a) THEN b ELSE a       \* a || b

TransactionId == "tx1"
EnvironmentId == "env1"

\* JSON.stringify of a provider result {id?}
StringifyResult(result) ==
  IF result.id = Null THEN "{}" ELSE "{\"id\":\"" \o result.id \o "\"}"

\* ---------------------------------------------------------------- inputs
Addresses == {"", "a@x.com"}
StepShapes == {"missing", "noTemplate", "ok"}
IntegrationIdentifiers == {Null, "int1", "int2"}
IntegrationStores == {{}, {"int1"}}
LayoutIdentifiers == {Null, "layoutA"}
LayoutStores == {{}, {"layoutA"}}
\* a store lookup that finds nothing returns the record without _id
NoSubscriber == [_id |-> Null, email |-> Null]
Subscribers == {NoSubscriber} \cup {[_id |-> "sub1", email |-> e] : e \in Addresses}
DnsSettings == {[mxRecordConfigured |-> m, inboundParseDomain |-> d] :
                  m \in BOOLEAN, d \in {"", "reply.example.com"}}
NoEnvironment == [_id |-> Null, dns |-> [mxRecordConfigured |-> FALSE, inboundParseDomain |-> ""]]
Environments == {NoEnvironment} \cup {[_id |-> EnvironmentId, dns |-> s] : s \in DnsSettings}
ReplyCallbacks == {[active |-> a, url |-> u] : a \in BOOLEAN, u \in {"", "https://cb"}}

\* What one call of the template compiler, the content update and the CSS
\* inliner inside the try block of execute can do.
CompileOutcomes == {"ok", "compileFailed", "updateFailed", "inlineFailed"}
\* The calls inside the try block of sendMessage, after the send has returned,
\* that the store or the audit queue can fail.
StoreFaults == {"successEntry", "identifierUpdate"}
\* What one call of the provider handler's send can do.
NoResult == [threw |-> FALSE, id |-> Null]
SendOutcomes == {[threw |-> FALSE, id |-> "pm-1"], [threw |-> FALSE, id |-> ""],
                 [threw |-> FALSE, id |-> Null], [threw |-> TRUE, id |-> Null]}

\* Override objects: the keys an override object may carry and their values.
MaxTo == 3
OverrideKeys == {"from", "senderName"}
OverrideValues == {"v1", "v2"}
EmptyObject == << >>
Objects == UNION {[ks -> OverrideValues] : ks \in SUBSET OverrideKeys}
\* a property of command.overrides: undefined, or an object
Undefined == [defined |-> FALSE, value |-> EmptyObject]
MaybeObjects == {Undefined} \cup {[defined |-> TRUE, value |-> o] : o \in Objects}
ProviderIds == {"sendgrid", "mailgun"}
OverrideScopes == {"email"} \cup ProviderIds
\* Recipients: options.to is one address or a list, overrides.to a list or absent.
Recipients == {"a@x.com", "b@x.com", "c@x.com"}
RecipientLists == UNION {[1..n -> Recipients] : n \in 0..MaxTo}
BaseRecipients == {[isArray |-> FALSE, value |-> <<a>>] : a \in Recipients}
                    \cup {[isArray |-> TRUE, value |-> l] : l \in RecipientLists}
MaybeRecipientLists == {[defined |-> FALSE, value |-> << >>]}
                         \cup {[defined |-> TRUE, value |-> l] : l \in RecipientLists}
\* The promises execute hands to Promise.all.
Resolutions == {"tenant", "layout", "accounting"}
\* Sender names: of the step's template, as returned by the template compiler,
\* and of the integration's credentials.
TemplateSenderNames == {Null, "", "Template Inc"}
CompiledSenderNames == {Null, "", "Template Inc", "Compiled Inc"}
IntegrationSenderNames == {Null, "Integration Inc"}
\* Arguments of getReplyToAddress, with characters an encoder would rewrite.
TransactionIds == {"tx1", "a+b", "t x", "50%"}
EnvironmentIds == {"env1", "e=2", "e@3", "e-nv-e=4"}
InboundParseDomains == {"reply.example.com", "x.io", "in.parse.co", "m@il.co"}

VARIABLES
  command,        \* the trigger command carried by the job
  subscriber,     \* what the subscriber store returns for command.subscriberId
  integrations,   \* identifiers of the active e-mail integrations
  environment,    \* what the environment store returns for command.environmentId
  layouts,        \* identifiers of the layouts of the environment
  storeContent,   \* result of storeContent()
  call,           \* arguments of the function applied on its own, and whether
                  \* it has returned
  returned,       \* what that function returned
  pc,             \* per delivery: position of the processor / of execute
  settled,        \* per delivery: how the promise of execute settled
  local,          \* per delivery: local variables of execute
  tasks,          \* per delivery: the three promises given to Promise.all
  messages,       \* the message store: _id -> record
  executionLog,   \* per delivery: audit entries issued, in issue order
  providerSends,  \* message _id -> number of send calls the provider received
  errorHandlebars,\* per delivery: calls of sendErrorHandlebars
  accounting,     \* per delivery: calls of sendSelectedIntegrationExecution done
  transaction,    \* per delivery: background transaction started / ended counts
  jobPromise      \* per delivery: resolve / reject calls on the job's promise

cfgVars == <<command, subscriber, integrations, environment, layouts, storeContent,
             call, returned>>
vars == <<command, subscriber, integrations, environment, layouts, storeContent,
          call, returned,
          pc, settled, local, tasks, messages, executionLog, providerSends,
          errorHandlebars, accounting, transaction, jobPromise>>

\* ---------------------------------------------------------------- helpers
Entry(detail, status, messageId, raw) ==
  [detail |-> detail, status |-> status, messageId |-> messageId, raw |-> raw]

\* executionLogQueueService.add issued by delivery r
AddLog(log, r, e) == [log EXCEPT ![r] = Append(@, e)]

Count(s, P(_)) == Cardinality({i \in DOMAIN s : P(s[i])})

Goto(r, label) == pc' = [pc EXCEPT ![r] = label]

\* execute's promise fulfils (return) or rejects (throw)
Return(r) == /\ pc' = [pc EXCEPT ![r] = "settled"]
             /\ settled' = [settled EXCEPT ![r] = "fulfilled"]
Raise(r) == /\ pc' = [pc EXCEPT ![r] = "settled"]
            /\ settled' = [settled EXCEPT ![r] = "rejected"]

\* ---------------------------------------------------------------- Init
InitLocal == [integration |-> Null, email |-> Null, messageId |-> NoMessage,
              overrideLayoutId |-> Null, replyTo |-> Null,
              compiled |-> Null, send |-> "notCalled", sendResult |-> NoResult]
IdleTasks == [tenant |-> "idle", layout |-> "idle", accounting |-> "idle"]

\* The canonical environment / layout store for commands that never read them.
ConfiguredEnvironment ==
  [_id |-> EnvironmentId,
   dns |-> [mxRecordConfigured |-> TRUE, inboundParseDomain |-> "reply.example.com"]]

\* Each delivery of the job is queued and nothing has been stored or issued.
Queued ==
  /\ pc = [r \in Deliveries |-> "queued"]
  /\ settled = [r \in Deliveries |-> "pending"]
  /\ local = [r \in Deliveries |-> InitLocal]
  /\ tasks = [r \in Deliveries |-> IdleTasks]
  /\ messages = << >>
  /\ executionLog = [r \in Deliveries |-> << >>]
  /\ providerSends = << >>
  /\ errorHandlebars = [r \in Deliveries |-> 0]
  /\ accounting = [r \in Deliveries |-> 0]
  /\ transaction = [r \in Deliveries |-> [started |-> 0, ended |-> 0]]
  /\ jobPromise = [r \in Deliveries |-> [resolved |-> 0, rejected |-> 0]]

Init ==
  /\ command \in [payloadEmail : Addresses,
                  integrationIdentifier : IntegrationIdentifiers,
                  step : StepShapes,
                  replyCallback : ReplyCallbacks,
                  layoutIdentifier : LayoutIdentifiers]
  /\ subscriber \in Subscribers
  /\ integrations \in IntegrationStores
  /\ environment \in Environments
  /\ layouts \in LayoutStores
  /\ storeContent \in BOOLEAN
  \* fields that no statement reads for this command keep one value
  /\ ~command.replyCallback.active => command.replyCallback.url = ""
  /\ Falsy(command.replyCallback.url) => environment = ConfiguredEnvironment
  /\ command.layoutIdentifier = Null => layouts = {}
  /\ call = [done |-> FALSE]
  /\ returned = Null
  /\ Queued

\* ---------------------------------------------------------------- worker
\* getWorkerProcessor: the queue hands delivery r to the processor, which
\* starts the background transaction and calls execute.  Deliveries are
\* handed out in order.
WorkerStart(r) ==
  /\ pc[r] = "queued"
  /\ IF r = 1 THEN TRUE ELSE pc[r - 1] # "queued"
  /\ transaction' = [transaction EXCEPT ![r].started = @ + 1]
  /\ Goto(r, "getSubscriber")
  /\ UNCHANGED <<cfgVars, settled, local, tasks, messages, executionLog,
                 providerSends, errorHandlebars, accounting, jobPromise>>

\* faulty variant: the rejection is swallowed, resolve is called in both cases
WorkerSettle_AlwaysResolves(r) ==
  /\ pc[r] = "settled"
  /\ jobPromise' = [jobPromise EXCEPT ![r].resolved = @ + 1]
  /\ Goto(r, "finally")
  /\ UNCHANGED <<cfgVars, settled, local, tasks, messages, executionLog,
                 providerSends, errorHandlebars, accounting, transaction>>

\* .then(resolve).catch(reject)
WorkerSettle(r) ==
  /\ pc[r] = "settled"
  /\ jobPromise' = [jobPromise EXCEPT ![r] =
       IF settled[r] = "fulfilled" THEN [@ EXCEPT !.resolved = @ + 1]
                                   ELSE [@ EXCEPT !.rejected = @ + 1]]
  /\ Goto(r, "finally")
  /\ UNCHANGED <<cfgVars, settled, local, tasks, messages, executionLog,
                 providerSends, errorHandlebars, accounting, transaction>>

\* .finally(() => transaction.end())
WorkerFinally(r) ==
  /\ pc[r] = "finally"
  /\ transaction' = [transaction EXCEPT ![r].ended = @ + 1]
  /\ Goto(r, "done")
  /\ UNCHANGED <<cfgVars, settled, local, tasks, messages, executionLog,
                 providerSends, errorHandlebars, accounting, jobPromise>>

\* ---------------------------------------------------------------- execute
\* const subscriber = await getSubscriberBySubscriberId(..); if (!subscriber) throw
GetSubscriber(r) ==
  /\ pc[r] = "getSubscriber"
  /\ IF subscriber = NoSubscriber
       THEN Raise(r)
       ELSE Goto(r, "getIntegration") /\ UNCHANGED settled
  /\ UNCHANGED <<cfgVars, local, tasks, messages, executionLog, providerSends,
                 errorHandlebars, accounting, transaction, jobPromise>>

\* SendMessageBase.getIntegration over SelectIntegration: an explicit
\* identifier is looked up and its absence is an error; without one the
\* active integration of the channel is returned, or nothing.
SelectIntegration(identifier, store) ==
  IF identifier # Null
    THEN IF identifier \in store
           THEN [threw |-> FALSE, integration |-> identifier]
           ELSE [threw |-> TRUE, integration |-> Null]
    ELSE IF store = {}
           THEN [threw |-> FALSE, integration |-> Null]
           ELSE [threw |-> FALSE, integration |-> CHOOSE i \in store : TRUE]

\* faulty variant: the catch block lacks its return
GetIntegration_CatchFallsThrough(r) ==
  /\ pc[r] = "getIntegration"
  /\ LET res == SelectIntegration(command.integrationIdentifier, integrations) IN
       /\ executionLog' =
            IF res.threw
              THEN AddLog(executionLog, r,
                     Entry("LIMIT_PASSED_NOVU_INTEGRATION", "FAILED", NoMessage, "message"))
              ELSE executionLog
       /\ local' = [local EXCEPT ![r].integration = res.integration]
       /\ Goto(r, "resolveStep")
       /\ UNCHANGED settled
  /\ UNCHANGED <<cfgVars, tasks, messages, providerSends, errorHandlebars,
                 accounting, transaction, jobPromise>>

\* try { integration = await getIntegration(..) } catch (e) { add(FAILED); return }
GetIntegration(r) ==
  /\ pc[r] = "getIntegration"
  /\ LET res == SelectIntegration(command.integrationIdentifier, integrations) IN
       IF res.threw
         THEN /\ executionLog' = AddLog(executionLog, r,
                   Entry("LIMIT_PASSED_NOVU_INTEGRATION", "FAILED", NoMessage, "message"))
              /\ Return(r)
              /\ UNCHANGED local
         ELSE /\ local' = [local EXCEPT ![r].integration = res.integration]
              /\ Goto(r, "resolveStep")
              /\ UNCHANGED <<executionLog, settled>>
  /\ UNCHANGED <<cfgVars, tasks, messages, providerSends, errorHandlebars,
                 accounting, transaction, jobPromise>>

\* faulty variant: the template of the step is not checked
ResolveStep_TemplateUnchecked(r) ==
  /\ pc[r] = "resolveStep"
  /\ IF command.step = "missing"
       THEN Raise(r) /\ UNCHANGED <<local, executionLog>>
       ELSE /\ local' = [local EXCEPT ![r].email =
                           OrElse(command.payloadEmail, subscriber.email)]
            /\ IF local[r].integration = Null
                 THEN /\ executionLog' = AddLog(executionLog, r,
                           Entry("SUBSCRIBER_NO_ACTIVE_INTEGRATION", "FAILED", NoMessage,
                                 IF command.integrationIdentifier # Null
                                   THEN "integrationIdentifier" ELSE Null))
                      /\ Return(r)
                 ELSE /\ Goto(r, "startResolutions")
                      /\ UNCHANGED <<executionLog, settled>>
  /\ UNCHANGED <<cfgVars, tasks, messages, providerSends, errorHandlebars,
                 accounting, transaction, jobPromise>>

\* faulty variant: the no-integration branch writes its entry and falls through
ResolveStep_NoIntegrationFallsThrough(r) ==
  /\ pc[r] = "resolveStep"
  /\ IF command.step = "missing" \/ command.step = "noTemplate"
       THEN Raise(r) /\ UNCHANGED <<local, executionLog>>
       ELSE /\ local' = [local EXCEPT ![r].email =
                           OrElse(command.payloadEmail, subscriber.email)]
            /\ executionLog' =
                 IF local[r].integration = Null
                   THEN AddLog(executionLog, r,
                          Entry("SUBSCRIBER_NO_ACTIVE_INTEGRATION", "FAILED", NoMessage,
                                IF command.integrationIdentifier # Null
                                  THEN "integrationIdentifier" ELSE Null))
                   ELSE executionLog
            /\ Goto(r, "startResolutions")
            /\ UNCHANGED settled
  /\ UNCHANGED <<cfgVars, tasks, messages, providerSends, errorHandlebars,
                 accounting, transaction, jobPromise>>

\* the step and template checks, the recipient address, and the return taken
\* when no integration was resolved
ResolveStep(r) ==
  /\ pc[r] = "resolveStep"
  /\ IF command.step = "missing" \/ command.step = "noTemplate"
       THEN Raise(r) /\ UNCHANGED <<local, executionLog>>
       ELSE /\ local' = [local EXCEPT ![r].email =
                           OrElse(command.payloadEmail, subscriber.email)]
            /\ IF local[r].integration = Null
                 THEN /\ executionLog' = AddLog(executionLog, r,
                           Entry("SUBSCRIBER_NO_ACTIVE_INTEGRATION", "FAILED", NoMessage,
                                 IF command.integrationIdentifier # Null
                                   THEN "integrationIdentifier" ELSE Null))
                      /\ Return(r)
                 ELSE /\ Goto(r, "startResolutions")
                      /\ UNCHANGED <<executionLog, settled>>
  /\ UNCHANGED <<cfgVars, tasks, messages, providerSends, errorHandlebars,
                 accounting, transaction, jobPromise>>

\* Promise.all([handleTenantExecution, getOverrideLayoutId,
\*              sendSelectedIntegrationExecution]): the three calls start
StartResolutions(r) ==
  /\ pc[r] = "startResolutions"
  /\ tasks' = [tasks EXCEPT ![r] =
       [tenant |-> "pending", layout |-> "pending", accounting |-> "pending"]]
  /\ Goto(r, "awaitAll")
  /\ UNCHANGED <<cfgVars, settled, local, messages, executionLog, providerSends,
                 errorHandlebars, accounting, transaction, jobPromise>>

HandleTenantExecution(r) ==
  /\ tasks[r].tenant = "pending"
  /\ tasks' = [tasks EXCEPT ![r].tenant = "done"]
  /\ UNCHANGED <<cfgVars, pc, settled, local, messages, executionLog, providerSends,
                 errorHandlebars, accounting, transaction, jobPromise>>

GetOverrideLayoutId(r) ==
  /\ tasks[r].layout = "pending"
  /\ tasks' = [tasks EXCEPT ![r].layout = "done"]
  /\ IF command.layoutIdentifier # Null
       THEN IF command.layoutIdentifier \in layouts
              THEN /\ local' = [local EXCEPT ![r].overrideLayoutId =
                                  command.layoutIdentifier]
                   /\ UNCHANGED executionLog
              ELSE /\ executionLog' = AddLog(executionLog, r,
                        Entry("LAYOUT_NOT_FOUND", "FAILED", NoMessage, "layoutIdentifier"))
                   /\ UNCHANGED local
       ELSE UNCHANGED <<local, executionLog>>
  /\ UNCHANGED <<cfgVars, pc, settled, messages, providerSends, errorHandlebars,
                 accounting, transaction, jobPromise>>

SendSelectedIntegrationExecution(r) ==
  /\ tasks[r].accounting = "pending"
  /\ tasks' = [tasks EXCEPT ![r].accounting = "done"]
  /\ accounting' = [accounting EXCEPT ![r] = @ + 1]
  /\ UNCHANGED <<cfgVars, pc, settled, local, messages, executionLog, providerSends,
                 errorHandlebars, transaction, jobPromise>>

\* faulty variant: the accounting call is started but not awaited
AllResolved_AccountingNotAwaited(r) ==
  tasks[r].tenant = "done" /\ tasks[r].layout = "done"

\* await Promise.all([..]): every one of the three promises has resolved
AllResolved(r) ==
  tasks[r].tenant = "done" /\ tasks[r].layout = "done" /\ tasks[r].accounting = "done"

\* faulty variant: every entity receives the same _id
NewId_Reused(store) == 1

\* the _id that the next created record gets
NewId(store) == Cardinality(DOMAIN store) + 1

\* faulty variant: the entity is returned without having been saved
Create_NotSaved(store, data) == store

\* BaseRepository.create: a new record under a fresh _id
Create(store, data) == store @@ (NewId(store) :> data)

\* after the await of Promise.all: merge the overrides, build the payload and
\* const message = await messageRepository.create({..})
CreateMessage(r) ==
  /\ pc[r] = "awaitAll"
  /\ AllResolved(r)
  /\ messages' = Create(messages,
       [email |-> local[r].email, providerId |-> local[r].integration,
        subject |-> "", content |-> Null, identifier |-> Null, status |-> Null,
        updates |-> <<>>])
  /\ providerSends' = providerSends @@ (NewId(messages) :> 0)
  /\ local' = [local EXCEPT ![r].messageId = NewId(messages)]
  /\ Goto(r, "replyTo")
  /\ UNCHANGED <<cfgVars, settled, tasks, executionLog, errorHandlebars, accounting,
                 transaction, jobPromise>>

\* faulty variant: a key already present in the target keeps its value
ObjectAssign_TargetWins(target, source) ==
  [k \in DOMAIN target \cup DOMAIN source |->
     IF k \in DOMAIN target THEN target[k] ELSE source[k]]

\* Object.assign(target, source): the own properties of source are copied onto
\* target, overwriting the properties target already has
ObjectAssign(target, source) ==
  [k \in DOMAIN target \cup DOMAIN source |->
     IF k \in DOMAIN source THEN source[k] ELSE target[k]]

\* x || {}
OrEmptyObject(x) == IF x.defined THEN x.value ELSE EmptyObject

\* const overrides = Object.assign({}, command.overrides.email || {},
\*                                 command.overrides[integration?.providerId] || {})
MergeOverrides(overrides, providerId) ==
  ObjectAssign(ObjectAssign(EmptyObject, OrEmptyObject(overrides["email"])),
               OrEmptyObject(overrides[providerId]))

\* overrides?.senderName
OverrideSenderName(overrides) ==
  IF "senderName" \in DOMAIN overrides THEN overrides["senderName"] ELSE Null

\* the senderName execute hands to sendMessage: declared from the overrides
\* or the template, then assigned again by the destructuring of the
\* compiler's result
DispatchSenderName(overrides, templateSenderName, compiledSenderName) ==
  LET declared == OrElse(OverrideSenderName(overrides), templateSenderName)
      assigned == compiledSenderName
  IN assigned

\* buildFactoryIntegration
BuildFactoryIntegration(integration, senderName) ==
  [providerId |-> integration.providerId,
   credentials |->
     [senderName |-> IF ~Falsy(senderName) THEN senderName
                     ELSE integration.credentials.senderName]]

\* prev.includes(current)
Includes(prev, current) == \E i \in DOMAIN prev : prev[i] = current

\* faulty variant: a repeated address moves to the end of the list
FilterDuplicate_KeepsLast(prev, current) ==
  Append(SelectSeq(prev, LAMBDA a : a # current), current)

\* filterDuplicate = (prev, current) => prev.includes(current) ? prev : [...prev, current]
FilterDuplicate(prev, current) ==
  IF Includes(prev, current) THEN prev ELSE Append(prev, current)

\* list.reduce(filterDuplicate, initial)
RECURSIVE ReduceFilterDuplicate(_, _)
ReduceFilterDuplicate(list, initial) ==
  IF list = << >> THEN initial
  ELSE ReduceFilterDuplicate(Tail(list), FilterDuplicate(initial, Head(list)))

\* createMailData: the recipients and the sender of the returned mail data
CreateMailData(options, overrides) ==
  LET to == IF options.to.isArray THEN options.to.value ELSE <<options.to.value[1]>>
      withOverrides == to \o (IF overrides.to.defined THEN overrides.to.value ELSE << >>)
  IN [to |-> ReduceFilterDuplicate(withOverrides, << >>),
      from |-> OrElse(overrides.from, options.from)]

\* faulty variant: the environment id is URI-encoded
GetReplyToAddress_Encoded(transactionId, environmentId, inboundParseDomain) ==
  "parse+" \o transactionId \o "-nv-e="
    \o (IF environmentId = "e@3" THEN "e%403"
        ELSE IF environmentId = "e=2" THEN "e%3D2"
        ELSE IF environmentId = "e-nv-e=4" THEN "e-nv-e%3D4"
        ELSE environmentId)
    \o "@" \o inboundParseDomain

\* getReplyToAddress
GetReplyToAddress(transactionId, environmentId, inboundParseDomain) ==
  "parse+" \o transactionId \o "-nv-e=" \o environmentId \o "@" \o inboundParseDomain

\* faulty variant: every unmet DNS prerequisite is reported with one detail
GetReplyTo_OneDetail(cmd, env) ==
  IF Falsy(cmd.replyCallback.url)
    THEN [threw |-> FALSE, value |-> Null,
          warning |-> "REPLY_CALLBACK_MISSING_REPLAY_CALLBACK_URL"]
  ELSE IF env = NoEnvironment
    THEN [threw |-> TRUE, value |-> Null, warning |-> Null]
  ELSE IF env.dns.mxRecordConfigured /\ ~Falsy(env.dns.inboundParseDomain)
    THEN [threw |-> FALSE,
          value |-> GetReplyToAddress(TransactionId, env._id, env.dns.inboundParseDomain),
          warning |-> Null]
  ELSE [threw |-> FALSE, value |-> Null, warning |-> "REPLY_CALLBACK_NOT_CONFIGURATION"]

\* getReplyTo: [threw, value, warning] for the command and the environment read
GetReplyTo(cmd, env) ==
  IF Falsy(cmd.replyCallback.url)
    THEN [threw |-> FALSE, value |-> Null,
          warning |-> "REPLY_CALLBACK_MISSING_REPLAY_CALLBACK_URL"]
  ELSE IF env = NoEnvironment
    THEN [threw |-> TRUE, value |-> Null, warning |-> Null]
  ELSE IF env.dns.mxRecordConfigured /\ ~Falsy(env.dns.inboundParseDomain)
    THEN [threw |-> FALSE,
          value |-> GetReplyToAddress(TransactionId, env._id, env.dns.inboundParseDomain),
          warning |-> Null]
  ELSE [threw |-> FALSE, value |-> Null,
        warning |->
          IF ~env.dns.mxRecordConfigured /\ Falsy(env.dns.inboundParseDomain)
            THEN "REPLY_CALLBACK_NOT_CONFIGURATION"
          ELSE IF ~env.dns.mxRecordConfigured
            THEN "REPLY_CALLBACK_MISSING_MX_RECORD_CONFIGURATION"
          ELSE "REPLY_CALLBACK_MISSING_MX_ROUTE_DOMAIN_CONFIGURATION"]

\* if (command.step.replyCallback?.active) { replyTo = await getReplyTo(..) }
DeriveReplyTo(r) ==
  /\ pc[r] = "replyTo"
  /\ IF ~command.replyCallback.active
       THEN Goto(r, "compile") /\ UNCHANGED <<settled, local, executionLog>>
       ELSE LET res == GetReplyTo(command, environment) IN
         IF res.threw
           THEN Raise(r) /\ UNCHANGED <<local, executionLog>>
           ELSE /\ local' = [local EXCEPT ![r].replyTo = res.value]
                /\ executionLog' =
                     IF res.warning # Null
                       THEN AddLog(executionLog, r,
                              Entry(res.warning, "WARNING", local[r].messageId, Null))
                       ELSE executionLog
                /\ Goto(r, "compile")
                /\ UNCHANGED settled
  /\ UNCHANGED <<cfgVars, tasks, messages, providerSends, errorHandlebars, accounting,
                 transaction, jobPromise>>

\* BaseRepository.update with { $set: fields } on the record _id
\* faulty variant: the $set is applied to every record of the collection
Update_EveryRecord(store, id, fields) ==
  [i \in DOMAIN store |->
     [f \in DOMAIN store[i] |->
        IF f = "updates" THEN Append(store[i].updates, DOMAIN fields)
        ELSE IF f \in DOMAIN fields THEN fields[f] ELSE store[i][f]]]

\* BaseRepository.update with { $set: fields } on the record of that _id; the
\* field updates of a record is the history of the update calls it received
Update(store, id, fields) ==
  [store EXCEPT ![id] =
     [f \in DOMAIN store[id] |->
        IF f = "updates" THEN Append(store[id].updates, DOMAIN fields)
        ELSE IF f \in DOMAIN fields THEN fields[f] ELSE store[id][f]]]

\* SendMessageBase.sendErrorHandlebars: the fallback path for a template that
\* could not be compiled
SendErrorHandlebars(r) == errorHandlebars' = [errorHandlebars EXCEPT ![r] = @ + 1]

\* SendMessageBase.sendErrorStatus: the status of the record is set
SendErrorStatus(store, id, status) == Update(store, id, [status |-> status])

\* faulty variant: the catch block lacks its return
CompileTemplate_CatchFallsThrough(r) ==
  /\ pc[r] = "compile"
  /\ \E outcome \in CompileOutcomes :
       /\ outcome = "updateFailed" => storeContent
       /\ local' = [local EXCEPT ![r].compiled = IF outcome = "ok" THEN "ok" ELSE "failed"]
       /\ messages' =
            IF storeContent /\ outcome \in {"ok", "inlineFailed"}
              THEN Update(messages, local[r].messageId,
                          [subject |-> "compiled subject", content |-> "compiled content"])
              ELSE messages
       /\ IF outcome = "ok" THEN UNCHANGED errorHandlebars ELSE SendErrorHandlebars(r)
       /\ Goto(r, "messageCreated")
       /\ UNCHANGED settled
  /\ UNCHANGED <<cfgVars, tasks, executionLog, providerSends, accounting,
                 transaction, jobPromise>>

\* faulty variant: the catch block rethrows after sendErrorHandlebars
CompileTemplate_Rethrows(r) ==
  /\ pc[r] = "compile"
  /\ \E outcome \in CompileOutcomes :
       /\ outcome = "updateFailed" => storeContent
       /\ local' = [local EXCEPT ![r].compiled = IF outcome = "ok" THEN "ok" ELSE "failed"]
       /\ messages' =
            IF storeContent /\ outcome \in {"ok", "inlineFailed"}
              THEN Update(messages, local[r].messageId,
                          [subject |-> "compiled subject", content |-> "compiled content"])
              ELSE messages
       /\ IF outcome = "ok"
            THEN Goto(r, "messageCreated") /\ UNCHANGED <<settled, errorHandlebars>>
            ELSE /\ SendErrorHandlebars(r)
                 /\ Raise(r)
  /\ UNCHANGED <<cfgVars, tasks, executionLog, providerSends, accounting,
                 transaction, jobPromise>>

\* the try block of execute: compile, store the content when storeContent(),
\* inline the CSS; catch: sendErrorHandlebars and return
CompileTemplate(r) ==
  /\ pc[r] = "compile"
  /\ \E outcome \in CompileOutcomes :
       /\ outcome = "updateFailed" => storeContent
       /\ local' = [local EXCEPT ![r].compiled = IF outcome = "ok" THEN "ok" ELSE "failed"]
       /\ messages' =
            IF storeContent /\ outcome \in {"ok", "inlineFailed"}
              THEN Update(messages, local[r].messageId,
                          [subject |-> "compiled subject", content |-> "compiled content"])
              ELSE messages
       /\ IF outcome = "ok"
            THEN Goto(r, "messageCreated") /\ UNCHANGED <<settled, errorHandlebars>>
            ELSE /\ SendErrorHandlebars(r)
                 /\ Return(r)
  /\ UNCHANGED <<cfgVars, tasks, executionLog, providerSends, accounting,
                 transaction, jobPromise>>

\* faulty variant: the MESSAGE_CREATED entry is not issued
MessageCreated_NotIssued(r) ==
  /\ pc[r] = "messageCreated"
  /\ Goto(r, "dispatch")
  /\ UNCHANGED <<cfgVars, settled, local, tasks, messages, executionLog, providerSends,
                 errorHandlebars, accounting, transaction, jobPromise>>

\* faulty variant: the resolved payload is attached whatever storeContent() says
MessageCreated_AlwaysRaw(r) ==
  /\ pc[r] = "messageCreated"
  /\ executionLog' = AddLog(executionLog, r,
       Entry("MESSAGE_CREATED", "PENDING", local[r].messageId, "payload"))
  /\ Goto(r, "dispatch")
  /\ UNCHANGED <<cfgVars, settled, local, tasks, messages, providerSends,
                 errorHandlebars, accounting, transaction, jobPromise>>

\* the PENDING / MESSAGE_CREATED audit entry
MessageCreated(r) ==
  /\ pc[r] = "messageCreated"
  /\ executionLog' = AddLog(executionLog, r,
       Entry("MESSAGE_CREATED", "PENDING", local[r].messageId,
             IF storeContent THEN "payload" ELSE Null))
  /\ Goto(r, "dispatch")
  /\ UNCHANGED <<cfgVars, settled, local, tasks, messages, providerSends,
                 errorHandlebars, accounting, transaction, jobPromise>>

\* faulty variant: a failed send is repeated once before it is recorded
SendMessageEffect_Retries(r, result) ==
  LET id == local[r].messageId IN
  /\ providerSends' = [providerSends EXCEPT ![id] = @ + (IF result.threw THEN 2 ELSE 1)]
  /\ local' = [local EXCEPT ![r].sendResult = result,
                             ![r].send = IF result.threw THEN "threw" ELSE "returned"]
  /\ IF ~result.threw
       THEN /\ executionLog' = AddLog(executionLog, r,
                 Entry("MESSAGE_SENT", "SUCCESS", id, StringifyResult(result)))
            /\ messages' = IF Falsy(result.id) THEN messages
                           ELSE Update(messages, id, [identifier |-> result.id])
       ELSE /\ messages' = SendErrorStatus(messages, id, "error")
            /\ executionLog' = AddLog(executionLog, r,
                 Entry("PROVIDER_ERROR", "FAILED", id, "error"))

\* faulty variant: the identifier is written without the check of result.id
SendMessageEffect_UncheckedId(r, result) ==
  LET id == local[r].messageId IN
  /\ providerSends' = [providerSends EXCEPT ![id] = @ + 1]
  /\ local' = [local EXCEPT ![r].sendResult = result,
                             ![r].send = IF result.threw THEN "threw" ELSE "returned"]
  /\ IF ~result.threw
       THEN /\ executionLog' = AddLog(executionLog, r,
                 Entry("MESSAGE_SENT", "SUCCESS", id, StringifyResult(result)))
            /\ messages' = Update(messages, id, [identifier |-> result.id])
       ELSE /\ messages' = SendErrorStatus(messages, id, "error")
            /\ executionLog' = AddLog(executionLog, r,
                 Entry("PROVIDER_ERROR", "FAILED", id, "error"))

\* sendMessage: mailHandler.send, then the SUCCESS entry and the identifier
\* update, or in the catch sendErrorStatus and the PROVIDER_ERROR entry
SendMessageEffect(r, result) ==
  LET id == local[r].messageId IN
  /\ providerSends' = [providerSends EXCEPT ![id] = @ + 1]
  /\ local' = [local EXCEPT ![r].sendResult = result,
                             ![r].send = IF result.threw THEN "threw" ELSE "returned"]
  /\ IF ~result.threw
       THEN /\ executionLog' = AddLog(executionLog, r,
                 Entry("MESSAGE_SENT", "SUCCESS", id, StringifyResult(result)))
            /\ messages' = IF Falsy(result.id) THEN messages
                           ELSE Update(messages, id, [identifier |-> result.id])
       ELSE /\ messages' = SendErrorStatus(messages, id, "error")
            /\ executionLog' = AddLog(executionLog, r,
                 Entry("PROVIDER_ERROR", "FAILED", id, "error"))

\* mailFactory.getHandler, called by sendMessage before its try block: the
\* lookup of the handler of the provider fails, and the error leaves execute
HandlerNotFound(r) ==
  /\ local' = [local EXCEPT ![r].send = "noHandler"]
  /\ Raise(r)
  /\ UNCHANGED <<messages, executionLog, providerSends>>

\* faulty variant: the catch block of sendMessage rethrows the provider error
SendMessage_Rethrows(r) ==
  /\ pc[r] = "dispatch"
  /\ ~Falsy(local[r].email) /\ local[r].integration # Null
  /\ \/ HandlerNotFound(r)
     \/ \E result \in SendOutcomes :
          /\ SendMessageEffect(r, result)
          /\ IF result.threw THEN Raise(r) ELSE Return(r)
  /\ UNCHANGED <<cfgVars, tasks, errorHandlebars, accounting, transaction, jobPromise>>

\* if (email && integration) { await sendMessage(..); return }
SendMessage(r) ==
  /\ pc[r] = "dispatch"
  /\ ~Falsy(local[r].email) /\ local[r].integration # Null
  /\ \/ HandlerNotFound(r)
     \/ /\ \E result \in SendOutcomes : SendMessageEffect(r, result)
        /\ Return(r)
  /\ UNCHANGED <<cfgVars, tasks, errorHandlebars, accounting, transaction, jobPromise>>

\* faulty variant: the integration is tested before the address
SendErrors_IntegrationFirst(r) ==
  /\ pc[r] = "dispatch"
  /\ ~(~Falsy(local[r].email) /\ local[r].integration # Null)
  /\ LET id == local[r].messageId IN
       IF local[r].integration = Null
         THEN /\ messages' = SendErrorStatus(messages, id, "warning")
              /\ executionLog' = AddLog(executionLog, r,
                   Entry("SUBSCRIBER_NO_ACTIVE_INTEGRATION", "FAILED", id, Null))
       ELSE UNCHANGED <<messages, executionLog>>
  /\ Return(r)
  /\ UNCHANGED <<cfgVars, local, tasks, providerSends, errorHandlebars, accounting,
                 transaction, jobPromise>>

\* await sendErrors(email, integration, message, command)
SendErrors(r) ==
  /\ pc[r] = "dispatch"
  /\ ~(~Falsy(local[r].email) /\ local[r].integration # Null)
  /\ LET id == local[r].messageId IN
       IF Falsy(local[r].email)
         THEN /\ messages' = SendErrorStatus(messages, id, "warning")
              /\ executionLog' = AddLog(executionLog, r,
                   Entry("SUBSCRIBER_NO_CHANNEL_DETAILS", "FAILED", id, Null))
       ELSE IF local[r].integration = Null
         THEN /\ messages' = SendErrorStatus(messages, id, "warning")
              /\ executionLog' = AddLog(executionLog, r,
                   Entry("SUBSCRIBER_NO_ACTIVE_INTEGRATION", "FAILED", id, Null))
       ELSE UNCHANGED <<messages, executionLog>>
  /\ Return(r)
  /\ UNCHANGED <<cfgVars, local, tasks, providerSends, errorHandlebars, accounting,
                 transaction, jobPromise>>

\* ---------------------------------------------------------------- Next
Next ==
  \E r \in Deliveries :
    \/ WorkerStart(r)
    \/ GetSubscriber(r)
    \/ GetIntegration(r)
    \/ ResolveStep(r)
    \/ StartResolutions(r)
    \/ HandleTenantExecution(r)
    \/ GetOverrideLayoutId(r)
    \/ SendSelectedIntegrationExecution(r)
    \/ CreateMessage(r)
    \/ DeriveReplyTo(r)
    \/ CompileTemplate(r)
    \/ MessageCreated(r)
    \/ SendMessage(r)
    \/ SendErrors(r)
    \/ WorkerSettle(r)
    \/ WorkerFinally(r)

Spec == Init /\ [][Next]_vars

TypeOK ==
  /\ pc \in [Deliveries -> {"queued", "getSubscriber", "getIntegration", "resolveStep",
                            "startResolutions", "awaitAll", "replyTo", "compile",
                            "messageCreated", "dispatch", "settled", "finally", "done"}]
  /\ settled \in [Deliveries -> {"pending", "fulfilled", "rejected"}]
  /\ DOMAIN messages = 1..Cardinality(DOMAIN messages)
  /\ DOMAIN providerSends = DOMAIN messages

\* ---------------------------------------------------------------- properties
Log(r) == executionLog[r]
Last(s) == s[Len(s)]
Done(r) == pc[r] = "done"
SubscriberExists == subscriber # NoSubscriber
Resolution == SelectIntegration(command.integrationIdentifier, integrations)
IntegrationResolved == ~Resolution.threw /\ Resolution.integration # Null
NoActiveIntegration == ~Resolution.threw /\ Resolution.integration = Null
ExplicitIntegrationNotFound ==
  command.integrationIdentifier # Null /\ command.integrationIdentifier \notin integrations
NoAddress == Falsy(command.payloadEmail) /\ Falsy(subscriber.email)
CreatedMessage(r) == local[r].messageId # NoMessage
IsEntry(e, detail, status) == e.detail = detail /\ e.status = status

\* the case of C1: subscriber found, integration resolved, step and template
\* present, no address in the payload nor on the subscriber
C1_Case == SubscriberExists /\ IntegrationResolved /\ command.step = "ok" /\ NoAddress

\* C1 as stated: a finished run without any recipient address has created no
\* Message record, has written exactly one audit entry in total, the FAILED
\* SUBSCRIBER_NO_CHANNEL_DETAILS one, and has returned normally.
C1_AsStated ==
  \A r \in Deliveries :
    (Done(r) /\ C1_Case) =>
      /\ ~CreatedMessage(r)
      /\ Len(Log(r)) = 1
      /\ IsEntry(Log(r)[1], "SUBSCRIBER_NO_CHANNEL_DETAILS", "FAILED")
      /\ settled[r] = "fulfilled"

\* C1 amended: a run without any recipient address creates its Message record
\* and never calls the provider; when it reaches the dispatch decision (reply-to
\* derivation did not raise, compilation succeeded) it has returned normally
\* and has written exactly one FAILED SUBSCRIBER_NO_CHANNEL_DETAILS entry, which
\* carries the id of that record and follows the PENDING MESSAGE_CREATED entry.
C1_NoAddressRecordedAfterCreate ==
  \A r \in Deliveries :
    (Done(r) /\ C1_Case) =>
      /\ CreatedMessage(r)
      /\ local[r].messageId \in DOMAIN messages
      /\ providerSends[local[r].messageId] = 0
      /\ local[r].compiled = "ok" =>
           /\ settled[r] = "fulfilled"
           /\ Count(Log(r), LAMBDA e : e.status = "FAILED" /\ e.messageId # NoMessage) = 1
           /\ Len(Log(r)) >= 2
           /\ Last(Log(r)) = Entry("SUBSCRIBER_NO_CHANNEL_DETAILS", "FAILED",
                                   local[r].messageId, Null)
           /\ IsEntry(Log(r)[Len(Log(r)) - 1], "MESSAGE_CREATED", "PENDING")
      /\ local[r].compiled # "ok" =>
           Count(Log(r), LAMBDA e : e.status = "FAILED" /\ e.messageId # NoMessage) = 0

C1_Witness ==
  \E r \in Deliveries :
    /\ Done(r) /\ C1_Case /\ local[r].compiled = "ok"
    /\ IsEntry(Last(Log(r)), "SUBSCRIBER_NO_CHANNEL_DETAILS", "FAILED")

\* C2 as stated: whenever the subscriber exists and no active integration is
\* resolved, the finished run has returned without raising, has created no
\* Message record, has not called the provider, and has written exactly one
\* audit entry, FAILED with SUBSCRIBER_NO_ACTIVE_INTEGRATION.
C2_AsStated ==
  \A r \in Deliveries :
    (Done(r) /\ SubscriberExists /\ NoActiveIntegration) =>
      /\ settled[r] = "fulfilled"
      /\ ~CreatedMessage(r)
      /\ local[r].send = "notCalled"
      /\ Len(Log(r)) = 1
      /\ IsEntry(Log(r)[1], "SUBSCRIBER_NO_ACTIVE_INTEGRATION", "FAILED")

\* C3: once the lookup of a supplied integration identifier has found nothing,
\* the run has written exactly one audit entry, FAILED with
\* LIMIT_PASSED_NOVU_INTEGRATION, has created no Message record and has
\* returned normally.
C3_ExplicitNotFound ==
  \A r \in Deliveries :
    (/\ ExplicitIntegrationNotFound
     /\ SubscriberExists
     /\ pc[r] \notin {"queued", "getSubscriber", "getIntegration"}) =>
      /\ Log(r) = << Entry("LIMIT_PASSED_NOVU_INTEGRATION", "FAILED", NoMessage, "message") >>
      /\ ~CreatedMessage(r)
      /\ messages = << >>
      /\ settled[r] = "fulfilled"

C3_Witness ==
  \E r \in Deliveries :
    /\ Done(r) /\ ExplicitIntegrationNotFound /\ SubscriberExists
    /\ Len(Log(r)) = 1 /\ jobPromise[r].resolved = 1

\* C4: in a run whose compilation try block failed the provider is never
\* called, sendErrorHandlebars has been called exactly once, no
\* MESSAGE_CREATED and no MESSAGE_SENT entry is written, and execute has
\* returned normally.
C4_CompileFailure ==
  \A r \in Deliveries :
    local[r].compiled = "failed" =>
      /\ local[r].send = "notCalled"
      /\ providerSends[local[r].messageId] = 0
      /\ errorHandlebars[r] = 1
      /\ Count(Log(r), LAMBDA e : e.detail \in {"MESSAGE_CREATED", "MESSAGE_SENT"}) = 0
      /\ settled[r] = "fulfilled"

C4_Witness ==
  \E r \in Deliveries :
    /\ Done(r) /\ local[r].compiled = "failed" /\ errorHandlebars[r] = 1
    /\ ~Falsy(local[r].email)

\* C5: in a run whose send returned, exactly one SUCCESS entry is written, it
\* is the MESSAGE_SENT entry of the run's Message with the stringified result
\* as raw, and the record's identifier equals the result's id when that is
\* non-empty and is still unset otherwise.
C5_SuccessRecorded ==
  \A r \in Deliveries :
    local[r].send = "returned" =>
      LET id == local[r].messageId
          result == local[r].sendResult IN
      /\ Count(Log(r), LAMBDA e : e.status = "SUCCESS") = 1
      /\ Count(Log(r), LAMBDA e :
           e = Entry("MESSAGE_SENT", "SUCCESS", id, StringifyResult(result))) = 1
      /\ messages[id].identifier = IF Falsy(result.id) THEN Null ELSE result.id

C5_Witness ==
  \E r \in Deliveries :
    /\ Done(r) /\ local[r].send = "returned"
    /\ local[r].sendResult.id = "pm-1"
    /\ messages[local[r].messageId].identifier = "pm-1"

\* C6: every step leaves the execution log with entries whose messageId, when
\* present, is the _id of a record that was in the message store before the
\* step: a record exists before any entry that refers to it is issued.
C6_MessageExistsBeforeEntry ==
  [][\A r \in Deliveries : \A i \in DOMAIN executionLog'[r] :
       executionLog'[r][i].messageId # NoMessage =>
         executionLog'[r][i].messageId \in DOMAIN messages]_vars

C6_Witness ==
  \E r \in Deliveries :
    /\ Log(r) # << >>
    /\ Last(Log(r)).messageId # NoMessage
    /\ Last(Log(r)).status = "WARNING"
    /\ \E q \in Deliveries : q # r /\ pc[q] = "awaitAll"

\* C7: the provider receives at most one send call for any Message record.
C7_AtMostOneDispatch ==
  \A m \in DOMAIN providerSends : providerSends[m] <= 1

C7_Witness ==
  \E r \in Deliveries :
    /\ Done(r) /\ local[r].send = "threw"
    /\ providerSends[local[r].messageId] = 1

\* C8: for every job the processor starts one background transaction, ends it
\* exactly once whether execute fulfils or rejects, resolves the job's promise
\* when execute fulfils and rejects it when execute rejects, and never does both.
C8_TraceClosedOnce ==
  \A r \in Deliveries :
    /\ transaction[r].started = (IF pc[r] = "queued" THEN 0 ELSE 1)
    /\ transaction[r].ended = (IF Done(r) THEN 1 ELSE 0)
    /\ jobPromise[r].resolved + jobPromise[r].rejected <= 1
    /\ pc[r] \in {"finally", "done"} =>
         /\ settled[r] = "fulfilled" => jobPromise[r] = [resolved |-> 1, rejected |-> 0]
         /\ settled[r] = "rejected" => jobPromise[r] = [resolved |-> 0, rejected |-> 1]
         /\ settled[r] # "pending"

C8_Witness ==
  \E r \in Deliveries :
    /\ Done(r) /\ settled[r] = "rejected"
    /\ transaction[r].ended = 1 /\ jobPromise[r].rejected = 1

\* C9: in a run whose send threw, exactly one FAILED entry refers to the run's
\* Message and it is the PROVIDER_ERROR entry, no SUCCESS entry is written,
\* the record's identifier is not set, execute has returned normally, and the
\* job's promise ends resolved, not rejected.
C9_ProviderErrorRecorded ==
  \A r \in Deliveries :
    local[r].send = "threw" =>
      LET id == local[r].messageId IN
      /\ Count(Log(r), LAMBDA e : e.status = "FAILED" /\ e.messageId = id) = 1
      /\ Count(Log(r), LAMBDA e : e.detail = "PROVIDER_ERROR") = 1
      /\ Last(Log(r)) = Entry("PROVIDER_ERROR", "FAILED", id, "error")
      /\ Count(Log(r), LAMBDA e : e.status = "SUCCESS") = 0
      /\ messages[id].identifier = Null
      /\ settled[r] = "fulfilled"
      /\ jobPromise[r].rejected = 0
      /\ Done(r) => jobPromise[r].resolved = 1

C9_Witness ==
  \E r \in Deliveries :
    /\ Done(r) /\ local[r].send = "threw"
    /\ jobPromise[r].resolved = 1

\* the environment lookup of getReplyTo was reached and found nothing
EnvironmentMissingInReplyTo(r) ==
  /\ CreatedMessage(r) /\ pc[r] # "replyTo"
  /\ command.replyCallback.active /\ ~Falsy(command.replyCallback.url)
  /\ environment = NoEnvironment

RaisedAndRejected(r) ==
  settled[r] = "rejected" /\ jobPromise[r] = [resolved |-> 0, rejected |-> 1]

\* C10 as stated: in a finished run each fatal condition (subscriber not found,
\* step missing, template missing, environment missing in reply-to derivation)
\* has made execute raise and the job's promise reject, and a run without
\* subscriber has created no Message record and written no audit entry.
C10_AsStated ==
  \A r \in Deliveries :
    Done(r) =>
      /\ ~SubscriberExists => RaisedAndRejected(r) /\ ~CreatedMessage(r) /\ Log(r) = << >>
      /\ command.step = "missing" => RaisedAndRejected(r)
      /\ command.step = "noTemplate" => RaisedAndRejected(r)
      /\ EnvironmentMissingInReplyTo(r) => RaisedAndRejected(r)

\* C10 amended: subscriber not found, and environment missing in reply-to
\* derivation, make execute raise and the job's promise reject; a missing step
\* or template does so unless the subscriber was found and integration
\* resolution raised first, in which case execute has written its
\* LIMIT_PASSED_NOVU_INTEGRATION entry and returned normally.  A run without
\* subscriber creates no Message record and writes no audit entry.
C10_FatalConditionsRaise ==
  \A r \in Deliveries :
    Done(r) =>
      /\ ~SubscriberExists =>
           RaisedAndRejected(r) /\ ~CreatedMessage(r) /\ Log(r) = << >> /\ messages = << >>
      /\ command.step \in {"missing", "noTemplate"} =>
           IF SubscriberExists /\ Resolution.threw
             THEN /\ settled[r] = "fulfilled"
                  /\ jobPromise[r] = [resolved |-> 1, rejected |-> 0]
                  /\ Len(Log(r)) = 1
                  /\ IsEntry(Log(r)[1], "LIMIT_PASSED_NOVU_INTEGRATION", "FAILED")
             ELSE RaisedAndRejected(r)
      /\ EnvironmentMissingInReplyTo(r) => RaisedAndRejected(r)

C10_Witness ==
  \E r \in Deliveries :
    /\ Done(r) /\ SubscriberExists /\ ~Resolution.threw
    /\ command.step = "noTemplate" /\ RaisedAndRejected(r)

UpdatesOfDispatchedRun(r) ==
  (IF storeContent THEN <<{"subject", "content"}>> ELSE <<>>)
    \o (IF Falsy(local[r].sendResult.id) THEN <<>> ELSE <<{"identifier"}>>)

\* C12 as stated: on a run whose send returned, the Message is updated exactly
\* twice, with the compiled subject and content and then with the identifier.
C12_AsStated ==
  \A r \in Deliveries :
    local[r].send = "returned" =>
      messages[local[r].messageId].updates = <<{"subject", "content"}, {"identifier"}>>

\* C12 amended: every run that reaches the creation creates exactly one
\* Message record, under an _id of its own, and the record is never deleted;
\* on a run whose send returned the record has been updated with the compiled
\* subject and content if and only if storeContent() holds, and then with the
\* provider identifier if and only if the result carries a non-empty id, in
\* that order, and by nothing else.
C12_CreatedOnceUpdatedInOrder ==
  /\ Cardinality({r \in Deliveries : CreatedMessage(r)}) = Cardinality(DOMAIN messages)
  /\ \A r \in Deliveries :
       CreatedMessage(r) =>
         /\ local[r].messageId \in DOMAIN messages
         /\ \A q \in Deliveries : q # r => local[q].messageId # local[r].messageId
         /\ local[r].send = "returned" =>
              messages[local[r].messageId].updates = UpdatesOfDispatchedRun(r)

C12_Witness ==
  \E r \in Deliveries :
    /\ Done(r) /\ local[r].send = "returned" /\ storeContent
    /\ messages[local[r].messageId].updates = <<{"subject", "content"}, {"identifier"}>>
    /\ messages[local[r].messageId].identifier = "pm-1"
    /\ \E q \in Deliveries : q # r /\ Done(q) /\ CreatedMessage(q)

\* the audit entries of run r that reference the run's Message, in issue order
MessageEntries(r) ==
  SelectSeq(Log(r), LAMBDA e : e.messageId = local[r].messageId)

\* position of an entry in the pipeline: reply-address warning, creation, outcome
Stage(e) ==
  IF e.status = "WARNING" THEN 1
  ELSE IF e.status = "PENDING" THEN 2
  ELSE 3

ReplyWarnings ==
  {"REPLY_CALLBACK_MISSING_REPLAY_CALLBACK_URL", "REPLY_CALLBACK_NOT_CONFIGURATION",
   "REPLY_CALLBACK_MISSING_MX_RECORD_CONFIGURATION",
   "REPLY_CALLBACK_MISSING_MX_ROUTE_DOMAIN_CONFIGURATION"}

\* C13: the audit entries that reference the run's Message are issued in
\* pipeline order: a reply-address WARNING first, then PENDING MESSAGE_CREATED,
\* then the terminal SUCCESS MESSAGE_SENT or FAILED PROVIDER_ERROR /
\* SUBSCRIBER_NO_CHANNEL_DETAILS entry; a terminal entry is never issued
\* without the PENDING entry before it.
C13_PipelineOrder ==
  \A r \in Deliveries :
    CreatedMessage(r) =>
      LET es == MessageEntries(r) IN
        /\ \A i, j \in DOMAIN es : i < j => Stage(es[i]) < Stage(es[j])
        /\ \A j \in DOMAIN es :
             /\ Stage(es[j]) = 1 => es[j].detail \in ReplyWarnings
             /\ Stage(es[j]) = 2 => IsEntry(es[j], "MESSAGE_CREATED", "PENDING")
             /\ Stage(es[j]) = 3 =>
                  /\ \/ IsEntry(es[j], "MESSAGE_SENT", "SUCCESS")
                     \/ IsEntry(es[j], "PROVIDER_ERROR", "FAILED")
                     \/ IsEntry(es[j], "SUBSCRIBER_NO_CHANNEL_DETAILS", "FAILED")
                  /\ j > 1 /\ IsEntry(es[j - 1], "MESSAGE_CREATED", "PENDING")
        /\ pc[r] \in {"replyTo", "compile", "messageCreated"} =>
             \A j \in DOMAIN es : Stage(es[j]) = 1

C13_Witness ==
  \E r \in Deliveries :
    /\ Done(r) /\ CreatedMessage(r)
    /\ Len(MessageEntries(r)) = 3
    /\ MessageEntries(r)[1].status = "WARNING"
    /\ MessageEntries(r)[2].status = "PENDING"
    /\ MessageEntries(r)[3].status = "SUCCESS"

\* C14: two runs of the same job, sequential or interleaved, create two
\* distinct Message records; every audit entry of a run references no Message
\* or the run's own; the identifier stored on a run's record and the number
\* of sends the provider received for it are those of that run alone.
C14_IndependentRuns ==
  \A r \in Deliveries :
    CreatedMessage(r) =>
      LET id == local[r].messageId IN
        /\ \A q \in Deliveries : q # r /\ CreatedMessage(q) => local[q].messageId # id
        /\ \A i \in DOMAIN Log(r) : Log(r)[i].messageId \in {NoMessage, id}
        /\ providerSends[id] = IF local[r].send \in {"returned", "threw"} THEN 1 ELSE 0
        /\ messages[id].identifier =
             IF local[r].send = "returned" /\ ~Falsy(local[r].sendResult.id)
               THEN local[r].sendResult.id ELSE Null
        /\ Len(messages[id].updates) <= 2

C14_Witness ==
  \E r, q \in Deliveries :
    /\ r # q /\ Done(r) /\ Done(q)
    /\ local[r].send = "returned" /\ local[q].send = "returned"
    /\ local[r].messageId = 2 /\ local[q].messageId = 1
    /\ providerSends = <<1, 1>>
    /\ \E i \in DOMAIN Log(r) : Log(r)[i].messageId = 2
    /\ \E i \in DOMAIN Log(q) : Log(q)[i].messageId = 1

\* ------------------------------------------------- functions on their own
\* The functions of the module that read nothing but their arguments are
\* applied to arguments drawn from the input sets while no delivery runs.
pipelineVars == <<command, subscriber, integrations, environment, layouts, storeContent,
                  pc, settled, local, tasks, messages, executionLog, providerSends,
                  errorHandlebars, accounting, transaction, jobPromise>>

NoDelivery ==
  /\ command = [payloadEmail |-> "", integrationIdentifier |-> Null, step |-> "ok",
                replyCallback |-> [active |-> FALSE, url |-> ""],
                layoutIdentifier |-> Null]
  /\ subscriber = NoSubscriber
  /\ integrations = {}
  /\ environment = ConfiguredEnvironment
  /\ layouts = {}
  /\ storeContent = FALSE
  /\ Queued

InitOverrides ==
  /\ NoDelivery
  /\ call \in [overrides : [OverrideScopes -> MaybeObjects], providerId : ProviderIds,
               done : {FALSE}]
  /\ returned = EmptyObject

ApplyMergeOverrides ==
  /\ ~call.done
  /\ returned' = MergeOverrides(call.overrides, call.providerId)
  /\ call' = [call EXCEPT !.done = TRUE]
  /\ UNCHANGED pipelineVars

NextOverrides == ApplyMergeOverrides
SpecOverrides == InitOverrides /\ [][NextOverrides]_vars

InitMailData ==
  /\ NoDelivery
  /\ call \in [to : BaseRecipients, overridesTo : MaybeRecipientLists,
               overridesFrom : {Null, "o@x.com"}, done : {FALSE}]
  /\ returned = [to |-> << >>, from |-> Null]

ApplyCreateMailData ==
  /\ ~call.done
  /\ returned' = CreateMailData([to |-> call.to, from |-> "no-reply@novu.co"],
                                [to |-> call.overridesTo, from |-> call.overridesFrom])
  /\ call' = [call EXCEPT !.done = TRUE]
  /\ UNCHANGED pipelineVars

NextMailData == ApplyCreateMailData
SpecMailData == InitMailData /\ [][NextMailData]_vars

InitReplyToAddress ==
  /\ NoDelivery
  /\ call \in [transactionId : TransactionIds, environmentId : EnvironmentIds,
               inboundParseDomain : InboundParseDomains, done : {FALSE}]
  /\ returned = ""

ApplyGetReplyToAddress ==
  /\ ~call.done
  /\ returned' = GetReplyToAddress(call.transactionId, call.environmentId,
                                   call.inboundParseDomain)
  /\ call' = [call EXCEPT !.done = TRUE]
  /\ UNCHANGED pipelineVars

NextReplyToAddress == ApplyGetReplyToAddress
SpecReplyToAddress == InitReplyToAddress /\ [][NextReplyToAddress]_vars

\* C15: the merged override map has exactly the keys of the channel-scoped and
\* of the selected provider's override object; a key of the provider-scoped
\* object carries the provider-scoped value, a key present only in the
\* channel-scoped object carries the channel-scoped value.
C15_ProviderOverridesChannel ==
  call.done =>
    LET channel == call.overrides["email"]
        provider == call.overrides[call.providerId]
        inChannel(k) == channel.defined /\ k \in DOMAIN channel.value
        inProvider(k) == provider.defined /\ k \in DOMAIN provider.value
    IN /\ DOMAIN returned = {k \in OverrideKeys : inChannel(k) \/ inProvider(k)}
       /\ \A k \in OverrideKeys :
            /\ inProvider(k) => returned[k] = provider.value[k]
            /\ inChannel(k) /\ ~inProvider(k) => returned[k] = channel.value[k]

C15_Witness ==
  /\ call.done
  /\ call.providerId = "sendgrid"
  /\ call.overrides["email"] = [defined |-> TRUE,
                                value |-> [from |-> "v1", senderName |-> "v1"]]
  /\ call.overrides["sendgrid"] = [defined |-> TRUE, value |-> [from |-> "v2"]]
  /\ call.overrides["mailgun"] = [defined |-> TRUE, value |-> [senderName |-> "v2"]]
  /\ returned = [from |-> "v2", senderName |-> "v1"]

\* the addresses handed to createMailData, base first, then the overrides
GivenRecipients == call.to.value \o call.overridesTo.value
FirstSeen(list, a) == CHOOSE i \in DOMAIN list : list[i] = a /\ \A k \in 1..(i - 1) : list[k] # a

\* C16: the to list returned by createMailData holds each address of the base
\* recipients followed by the override recipients exactly once, in the order
\* in which the addresses are first seen, and no other address.
C16_RecipientsOnceInOrder ==
  call.done =>
    LET to == returned.to IN
      /\ \A i, j \in DOMAIN to : i # j => to[i] # to[j]
      /\ {to[i] : i \in DOMAIN to} = {GivenRecipients[i] : i \in DOMAIN GivenRecipients}
      /\ \A i, j \in DOMAIN to :
           i < j => FirstSeen(GivenRecipients, to[i]) < FirstSeen(GivenRecipients, to[j])

C16_Witness ==
  /\ call.done
  /\ call.to = [isArray |-> FALSE, value |-> <<"a@x.com">>]
  /\ call.overridesTo = [defined |-> TRUE, value |-> <<"a@x.com", "b@x.com">>]
  /\ returned.to = <<"a@x.com", "b@x.com">>

\* C17: getReplyToAddress returns "parse+", the transaction id, "-nv-e=", the
\* environment id, "@" and the inbound parse domain, in that order, each
\* argument character for character, and nothing else.
C17_AddressFormat ==
  call.done =>
    LET t == call.transactionId
        e == call.environmentId
        d == call.inboundParseDomain
        n == Len(t)
        m == Len(e)
    IN /\ Len(returned) = 6 + n + 6 + m + 1 + Len(d)
       /\ SubSeq(returned, 1, 6) = "parse+"
       /\ SubSeq(returned, 7, 6 + n) = t
       /\ SubSeq(returned, 7 + n, 12 + n) = "-nv-e="
       /\ SubSeq(returned, 13 + n, 12 + n + m) = e
       /\ SubSeq(returned, 13 + n + m, 13 + n + m) = "@"
       /\ SubSeq(returned, 14 + n + m, Len(returned)) = d

C17_Witness ==
  /\ call.done
  /\ call.transactionId = "a+b" /\ call.environmentId = "e@3"
  /\ call.inboundParseDomain = "x.io"
  /\ returned = "parse+a+b-nv-e=e@3@x.io"

\* which reply-address prerequisite a command and its environment leave unmet
ReplyCase(cmd, env) ==
  IF Falsy(cmd.replyCallback.url) THEN "noUrl"
  ELSE IF ~env.dns.mxRecordConfigured /\ Falsy(env.dns.inboundParseDomain) THEN "neither"
  ELSE IF ~env.dns.mxRecordConfigured THEN "noMxRecord"
  ELSE IF Falsy(env.dns.inboundParseDomain) THEN "noDomain"
  ELSE "met"

\* the run has come back from the reply-address step
PastReplyTo(r) ==
  /\ CreatedMessage(r)
  /\ pc[r] # "replyTo"
  /\ command.replyCallback.active
  /\ ~EnvironmentMissingInReplyTo(r)

\* C18: with an active reply callback, an unmet prerequisite makes getReplyTo
\* write exactly one WARNING entry, whose detail differs from the detail of
\* every other unmet case, and leaves the run without reply address; the run
\* goes on to compilation and is never rejected on that account.  With both
\* DNS prerequisites met no WARNING entry is written and the run carries the
\* derived address.
C18_ReplyWarnings ==
  \A r \in Deliveries :
    PastReplyTo(r) =>
      LET warnings == SelectSeq(Log(r), LAMBDA e : e.status = "WARNING")
          case == ReplyCase(command, environment)
      IN /\ local[r].compiled # Null \/ pc[r] = "compile"
         /\ settled[r] = "rejected" => local[r].send = "noHandler"
         /\ IF case = "met"
              THEN /\ warnings = << >>
                   /\ local[r].replyTo = "parse+tx1-nv-e=env1@reply.example.com"
              ELSE /\ Len(warnings) = 1
                   /\ warnings[1].messageId = local[r].messageId
                   /\ warnings[1].detail \in ReplyWarnings
                   /\ local[r].replyTo = Null
                   /\ \A c \in ReplyCallbacks, env \in Environments \ {NoEnvironment} :
                        LET other == [replyCallback |-> c] IN
                          c.active /\ ReplyCase(other, env) \notin {case, "met"} =>
                            GetReplyTo(other, env).warning # warnings[1].detail

C18_Witness ==
  \E r \in Deliveries :
    /\ Done(r) /\ PastReplyTo(r)
    /\ ReplyCase(command, environment) = "noDomain"
    /\ \E i \in DOMAIN Log(r) :
         Log(r)[i] = Entry("REPLY_CALLBACK_MISSING_MX_ROUTE_DOMAIN_CONFIGURATION",
                           "WARNING", local[r].messageId, Null)
    /\ local[r].replyTo = Null /\ local[r].send = "returned"

\* C19 as stated: when the supplied layoutIdentifier names no layout of the
\* environment, getOverrideLayoutId writes exactly one audit entry, with
\* status WARNING, and the run goes on to create its Message record.
C19_AsStated ==
  \A r \in Deliveries :
    /\ command.layoutIdentifier # Null
    /\ command.layoutIdentifier \notin layouts
    /\ tasks[r].layout = "done"
    => /\ Count(Log(r), LAMBDA e : e.detail = "LAYOUT_NOT_FOUND") = 1
       /\ \A i \in DOMAIN Log(r) :
            Log(r)[i].detail = "LAYOUT_NOT_FOUND" => Log(r)[i].status = "WARNING"
       /\ local[r].overrideLayoutId = Null
       /\ settled[r] # "pending" => CreatedMessage(r)

\* the promises of run r that have not resolved
PendingResolutions(r) == {t \in DOMAIN tasks[r] : tasks[r][t] # "done"}

\* C20: the three resolutions complete in any order, and the Message record
\* of a run is created only when all three have completed.
C20_CreateAfterAllResolved ==
  \A r \in Deliveries :
    /\ DOMAIN tasks[r] = {"tenant", "layout", "accounting"}
    /\ CreatedMessage(r) => PendingResolutions(r) = {}
    /\ pc[r] \in {"replyTo", "compile", "messageCreated", "dispatch"} =>
         PendingResolutions(r) = {}
    /\ CreatedMessage(r) => accounting[r] = 1

C20_Witness ==
  \E r, q \in Deliveries :
    /\ CreatedMessage(r) /\ PendingResolutions(r) = {} /\ accounting[r] = 1
    /\ pc[q] = "awaitAll" /\ ~CreatedMessage(q)
    /\ tasks[q] = [tenant |-> "pending", layout |-> "pending", accounting |-> "done"]

\* the PENDING MESSAGE_CREATED entries of run r
PendingEntries(r) ==
  SelectSeq(Log(r), LAMBDA e : IsEntry(e, "MESSAGE_CREATED", "PENDING"))

\* C21: when storeContent() is false the subject and content of the Message
\* record are never updated and the PENDING MESSAGE_CREATED entry carries no
\* raw payload; when storeContent() is true a run that writes the PENDING
\* entry has updated the record with the compiled subject and content and the
\* entry carries the resolved payload.
C21_ContentRetention ==
  \A r \in Deliveries :
    CreatedMessage(r) =>
      LET m == messages[local[r].messageId] IN
        IF storeContent
          THEN \A i \in DOMAIN PendingEntries(r) :
                 /\ PendingEntries(r)[i].raw = "payload"
                 /\ m.subject = "compiled subject" /\ m.content = "compiled content"
                 /\ m.updates[1] = {"subject", "content"}
          ELSE /\ m.subject = "" /\ m.content = Null
               /\ \A i \in DOMAIN m.updates : m.updates[i] \cap {"subject", "content"} = {}
               /\ \A i \in DOMAIN PendingEntries(r) : PendingEntries(r)[i].raw = Null

C21_Witness ==
  \E r, q \in Deliveries :
    /\ r # q /\ ~storeContent
    /\ Done(r) /\ local[r].send = "returned" /\ Len(PendingEntries(r)) = 1
    /\ PendingEntries(r)[1].raw = Null
    /\ messages[local[r].messageId].content = Null
    /\ messages[local[r].messageId].identifier = "pm-1"
    /\ Done(q) /\ local[q].compiled = "failed"

InitSenderName ==
  /\ NoDelivery
  /\ call \in [overrides : Objects, templateSenderName : TemplateSenderNames,
               compiledSenderName : CompiledSenderNames,
               integrationSenderName : IntegrationSenderNames, done : {FALSE}]
  /\ returned = [providerId |-> "sendgrid", credentials |-> [senderName |-> Null]]

\* the integration configuration sendMessage hands to mailFactory.getHandler
ApplyBuildFactoryIntegration ==
  /\ ~call.done
  /\ returned' = BuildFactoryIntegration(
       [providerId |-> "sendgrid",
        credentials |-> [senderName |-> call.integrationSenderName]],
       DispatchSenderName(call.overrides, call.templateSenderName,
                          call.compiledSenderName))
  /\ call' = [call EXCEPT !.done = TRUE]
  /\ UNCHANGED pipelineVars

NextSenderName == ApplyBuildFactoryIntegration
SpecSenderName == InitSenderName /\ [][NextSenderName]_vars

\* C22 as stated: when the merged overrides supply a non-empty senderName, the
\* integration configuration handed to the provider handler has
\* credentials.senderName equal to it, whatever the template compiler returns.
C22_AsStated ==
  call.done /\ ~Falsy(OverrideSenderName(call.overrides)) =>
    returned.credentials.senderName = OverrideSenderName(call.overrides)

\* ------------------------------------------------------------ store faults
\* sendMessage when a call that follows the send inside its try block throws:
\* the send has returned, then either the add of the MESSAGE_SENT entry
\* fails, or the entry is written and the update of the identifier fails; the
\* catch block runs as for a failed send
SendMessageStoreFault(r) ==
  /\ pc[r] = "dispatch"
  /\ ~Falsy(local[r].email) /\ local[r].integration # Null
  /\ \E result \in SendOutcomes, fault \in StoreFaults :
       LET id == local[r].messageId
           sent == Entry("MESSAGE_SENT", "SUCCESS", id, StringifyResult(result))
           failed == Entry("PROVIDER_ERROR", "FAILED", id, "error")
       IN /\ ~result.threw
          /\ fault = "identifierUpdate" => ~Falsy(result.id)
          /\ providerSends' = [providerSends EXCEPT ![id] = @ + 1]
          /\ local' = [local EXCEPT ![r].sendResult = result, ![r].send = "returned"]
          /\ messages' = SendErrorStatus(messages, id, "error")
          /\ executionLog' =
               IF fault = "identifierUpdate"
                 THEN AddLog(AddLog(executionLog, r, sent), r, failed)
                 ELSE AddLog(executionLog, r, failed)
  /\ Return(r)
  /\ UNCHANGED <<cfgVars, tasks, errorHandlebars, accounting, transaction, jobPromise>>

NextStoreFaults ==
  \/ Next
  \/ \E r \in Deliveries : SendMessageStoreFault(r)

SpecStoreFaults == Init /\ [][NextStoreFaults]_vars

\* C23 as stated: a run never writes both a SUCCESS MESSAGE_SENT entry and a
\* FAILED PROVIDER_ERROR entry for its Message, and a PROVIDER_ERROR entry is
\* written only when the send of the provider handler itself failed.
C23_AsStated ==
  \A r \in Deliveries :
    LET sent == Count(Log(r), LAMBDA e : IsEntry(e, "MESSAGE_SENT", "SUCCESS"))
        failed == Count(Log(r), LAMBDA e : IsEntry(e, "PROVIDER_ERROR", "FAILED"))
    IN /\ ~(sent > 0 /\ failed > 0)
       /\ failed > 0 => local[r].send = "threw"

\* ------------------------------------------------------- rejected resolution
\* One of the three promises handed to Promise.all rejects.  Promise.all
\* rejects with the first rejection, so execute raises while it awaits; the
\* promises still pending are not cancelled and run to their end.
ResolutionRejects(r) ==
  /\ \E t \in Resolutions :
       /\ tasks[r][t] = "pending"
       /\ tasks' = [tasks EXCEPT ![r][t] = "rejected"]
  /\ IF pc[r] = "awaitAll" THEN Raise(r) ELSE UNCHANGED <<pc, settled>>
  /\ UNCHANGED <<cfgVars, local, messages, executionLog, providerSends, errorHandlebars,
                 accounting, transaction, jobPromise>>

NextResolutionFaults ==
  \/ Next
  \/ \E r \in Deliveries : ResolutionRejects(r)

SpecResolutionFaults == Init /\ [][NextResolutionFaults]_vars

\* C24 as stated: once the promise of execute has settled and the worker has
\* closed the trace of the run, the run issues no further audit entry and no
\* further write, also when one of the three resolutions rejected.
C24_AsStated ==
  [][\A r \in Deliveries :
       Done(r) => /\ executionLog'[r] = executionLog[r]
                  /\ accounting'[r] = accounting[r]
                  /\ local'[r] = local[r]]_vars

\* ---------------------------------------------------------------- liveness
\* Every external call eventually returns or throws: a step that stays
\* enabled is eventually taken.
LiveSpec == Spec /\ WF_vars(Next)

\* the terminal audit entries of run r for its Message
TerminalEntries(r) ==
  SelectSeq(MessageEntries(r),
            LAMBDA e : \/ IsEntry(e, "MESSAGE_SENT", "SUCCESS")
                       \/ IsEntry(e, "PROVIDER_ERROR", "FAILED")
                       \/ IsEntry(e, "SUBSCRIBER_NO_CHANNEL_DETAILS", "FAILED"))

\* C25 as stated: every PENDING MESSAGE_CREATED entry is eventually followed,
\* in the same run, by exactly one terminal entry for the same Message.
C25_AsStated ==
  \A r \in Deliveries :
    (Len(PendingEntries(r)) > 0) ~> (Len(TerminalEntries(r)) = 1)

\* C26: every run that has passed the no-integration check carries an
\* integration, so sendErrors is entered only without a recipient address and
\* no FAILED SUBSCRIBER_NO_ACTIVE_INTEGRATION entry ever carries a Message id.
C26_DefensiveBranchUnreachable ==
  \A r \in Deliveries :
    /\ pc[r] \in {"startResolutions", "awaitAll", "replyTo", "compile",
                  "messageCreated", "dispatch"} => local[r].integration # Null
    /\ CreatedMessage(r) => local[r].integration # Null
    /\ \A i \in DOMAIN Log(r) :
         /\ Log(r)[i].detail = "SUBSCRIBER_NO_ACTIVE_INTEGRATION" =>
              Log(r)[i].messageId = NoMessage
         /\ Log(r)[i].detail = "SUBSCRIBER_NO_CHANNEL_DETAILS" => Falsy(local[r].email)
    /\ pc[r] = "dispatch" /\ ENABLED SendErrors(r) => Falsy(local[r].email)

C26_Witness ==
  \E r \in Deliveries :
    /\ Done(r) /\ CreatedMessage(r)
    /\ local[r].integration # Null /\ Falsy(local[r].email)
    /\ Len(Log(r)) > 0
    /\ Last(Log(r)) = Entry("SUBSCRIBER_NO_CHANNEL_DETAILS", "FAILED",
                            local[r].messageId, Null)

====
